---- MODULE Spec2Model ----
(***************************************************************************)
(* The conversion workflow of Hand2Excal: the App component of             *)
(* frontend/src/App.jsx (its React state, its four handlers, the views it  *)
(* renders per state) together with the TextInputZone component, the       *)
(* browser's object-URL registry, the interval timers and the fetch calls  *)
(* in flight.                                                              *)
(*                                                                         *)
(* JavaScript values are modelled as follows: null is the empty sequence   *)
(* (file, result) or 0 (preview), a File is <<[type, size]>>, an object    *)
(* URL is a positive integer, a string of the text area is a sequence of   *)
(* characters, a parsed JSON payload is a record whose absent fields are   *)
(* "undefined".                                                            *)
(***************************************************************************)
EXTENDS Integers, Sequences, FiniteSets, TLC

VARIABLES
    state,          \* App.jsx:27  useState(STATES.IDLE)
    inputMode,      \* App.jsx:28  useState('image')
    file,           \* App.jsx:29  useState(null)
    preview,        \* App.jsx:30  useState(null)
    result,         \* App.jsx:31  useState(null)
    error,          \* App.jsx:32  useState('')
    processingStep, \* App.jsx:33  useState(0)
    previewFailed,  \* App.jsx:34  useState(false)
    text,           \* TextInputZone: useState('')
    liveHandles,    \* object URLs created and not yet revoked (browser)
    nextHandle,     \* the next fresh object URL (browser)
    attempts,       \* the activations of handleConvert / handleTextConvert
    ev              \* history: the event handled last, with its input

vars == <<state, inputMode, file, preview, result, error, processingStep,
          previewFailed, text, liveHandles, nextHandle, attempts, ev>>

-----------------------------------------------------------------------------
(* Bounds of the model *)

MaxAttempts == 2
MaxHandles == 2
MaxTextLen == 2

-----------------------------------------------------------------------------
(* Constants of the program *)

STATES == [IDLE |-> "idle", PREVIEW |-> "preview", PROCESSING |-> "processing",
           DONE |-> "done", ERROR |-> "error"]

PROCESSING_STEPS == << "Analyzing your flowchart...",
                       "Extracting shapes & text...",
                       "Detecting connections & arrows...",
                       "Building Excalidraw elements...",
                       "Almost there..." >>

validTypes == {"image/jpeg", "image/png", "image/webp", "image/heic", "image/bmp"}

MaxFileBytes == 20 * 1024 * 1024

\* The messages the handlers set
MsgBadType == "Please upload a JPG, PNG, or WebP image."
MsgTooLarge == "Image is too large. Maximum size is 20MB."
MsgConversionFailed == "Conversion failed. Please try again."
MsgFallback == "Something went wrong. Please try again."

\* Messages of the errors the JavaScript runtime throws
MsgSyntaxError == "Unexpected token < in JSON at position 0"
MsgTypeErrorNull == "Cannot read properties of null"

-----------------------------------------------------------------------------
(* Inputs *)

\* Candidate files the user may pick: a 2 MB file of every whitelisted type
\* and of two types that are not, and a file of a whitelisted and of another
\* type one byte below, at and one byte above the size ceiling.
FileTypes == validTypes \cup {"application/pdf", "image/gif"}
Files == [type : FileTypes, size : {2 * 1024 * 1024}]
         \cup [type : {"image/png", "application/pdf"},
               size : {MaxFileBytes - 1, MaxFileBytes, MaxFileBytes + 1}]

\* Contents of the text area: sequences over a blank and a letter.
Chars == {" ", "a"}
RECURSIVE SeqsUpTo(_)
SeqsUpTo(n) == IF n = 0 THEN {<<>>}
               ELSE LET S == SeqsUpTo(n - 1)
                    IN  S \cup {Append(s, c) : s \in {x \in S : Len(x) = n - 1}, c \in Chars}
Texts == SeqsUpTo(MaxTextLen)

\* What the service may answer
Statuses == {200, 404, 500}
Payloads == [success : {"true", "false", "undefined"},
             detail  : {"undefined", "", "OOM"}]
\* A response body: not JSON at all, the JSON value null, or a JSON object
NoPayload == [success |-> "undefined", detail |-> "undefined"]
Bodies == {[json |-> "invalid", data |-> NoPayload], [json |-> "null", data |-> NoPayload]}
          \cup {[json |-> "object", data |-> p] : p \in Payloads}
\* Messages of a fetch rejection (no response at all)
RejectMessages == {"", "Failed to fetch"}

-----------------------------------------------------------------------------
(* JavaScript helpers *)

\* String.prototype.trim on a sequence of characters
RECURSIVE TrimStart(_)
TrimStart(s) == IF s # <<>> /\ Head(s) = " " THEN TrimStart(Tail(s)) ELSE s
RECURSIVE TrimEnd(_)
TrimEnd(s) == IF s # <<>> /\ s[Len(s)] = " " THEN TrimEnd(SubSeq(s, 1, Len(s) - 1)) ELSE s
Trim(s) == TrimEnd(TrimStart(s))

\* Truthiness of a field of a payload. The field values are written as JSON
\* text: "true" and "false" are the booleans, "" is the empty string,
\* "undefined" an absent field; any other value is a non-empty string.
Truthy(v) == v \notin {"undefined", "", "false"}

\* response.ok
Ok(status) == status \in 200..299

\* The history record of an event
Ev(op) == [op |-> op, file |-> <<>>, text |-> <<>>, att |-> 0, status |-> 0,
           body |-> <<>>, msg |-> ""]

\* `Server error (${response.status})`
ServerError(status) == "Server error (" \o ToString(status) \o ")"

-----------------------------------------------------------------------------
(* Initial state: the App component just mounted *)

Init ==
    /\ state = STATES.IDLE
    /\ inputMode = "image"
    /\ file = <<>>
    /\ preview = 0
    /\ result = <<>>
    /\ error = ""
    /\ processingStep = 0
    /\ previewFailed = FALSE
    /\ text = <<>>
    /\ liveHandles = {}
    /\ nextHandle = 1
    /\ attempts = <<>>
    /\ ev = Ev("mount")

-----------------------------------------------------------------------------
(* Which views are rendered (App.jsx:168-260) *)

\* Mutant: the mode switcher is rendered in every state
ModeSwitcherShown_always == TRUE

ModeSwitcherShown == state = STATES.IDLE
IdleUploadShown == state = STATES.IDLE /\ inputMode = "image"
\* Mutant: the text input is rendered whenever the mode is text
TextInputShown_noStateCheck == inputMode = "text"

TextInputShown == state = STATES.IDLE /\ inputMode = "text"
\* Mutant: the preview card is rendered whenever a file is held
PreviewShown_noStateCheck == inputMode = "image" /\ file # <<>>

PreviewShown == state = STATES.PREVIEW /\ inputMode = "image" /\ file # <<>>
ProcessingShown == state = STATES.PROCESSING
DoneShown == state = STATES.DONE /\ result # <<>>
ErrorShown == state = STATES.ERROR

\* The text area keeps its content only while TextInputZone stays mounted
TextKept(st, mode, t) == IF st = STATES.IDLE /\ mode = "text" THEN t ELSE <<>>

-----------------------------------------------------------------------------
(* The handlers of App *)

\* Mutant: the size check written with >= instead of >
validate_sizeInclusive(selectedFile) ==
    IF selectedFile.type \notin validTypes THEN MsgBadType
    ELSE IF selectedFile.size >= 20 * 1024 * 1024 THEN MsgTooLarge
    ELSE ""

\* The two checks at the head of handleFileSelected: "" when the file passes,
\* else the message set.
validate(selectedFile) ==
    IF selectedFile.type \notin validTypes THEN MsgBadType
    ELSE IF selectedFile.size > 20 * 1024 * 1024 THEN MsgTooLarge
    ELSE ""

\* Mutant: setPreviewFailed(false) is left out
handleFileSelected_keepsFallback(selectedFile) ==
    IF validate(selectedFile) # ""
    THEN /\ error' = validate(selectedFile)
         /\ state' = STATES.ERROR
         /\ UNCHANGED <<inputMode, file, preview, result, processingStep,
                        previewFailed, liveHandles, nextHandle, attempts>>
    ELSE /\ file' = <<selectedFile>>
         /\ preview' = nextHandle
         /\ liveHandles' = liveHandles \cup {nextHandle}
         /\ nextHandle' = nextHandle + 1
         /\ state' = STATES.PREVIEW
         /\ UNCHANGED <<inputMode, result, error, processingStep, previewFailed,
                        attempts>>

\* Mutant: the object URL is created before the file is validated
handleFileSelected_previewFirst(selectedFile) ==
    /\ preview' = nextHandle
    /\ liveHandles' = liveHandles \cup {nextHandle}
    /\ nextHandle' = nextHandle + 1
    /\ IF validate(selectedFile) # ""
       THEN /\ error' = validate(selectedFile)
            /\ state' = STATES.ERROR
            /\ UNCHANGED <<inputMode, file, result, processingStep,
                           previewFailed, attempts>>
       ELSE /\ file' = <<selectedFile>>
            /\ previewFailed' = FALSE
            /\ state' = STATES.PREVIEW
            /\ UNCHANGED <<inputMode, result, error, processingStep, attempts>>

handleFileSelected(selectedFile) ==
    IF validate(selectedFile) # ""
    THEN /\ error' = validate(selectedFile)
         /\ state' = STATES.ERROR
         /\ UNCHANGED <<inputMode, file, preview, result, processingStep,
                        previewFailed, liveHandles, nextHandle, attempts>>
    ELSE /\ file' = <<selectedFile>>
         /\ preview' = nextHandle                      \* URL.createObjectURL
         /\ liveHandles' = liveHandles \cup {nextHandle}
         /\ nextHandle' = nextHandle + 1
         /\ previewFailed' = FALSE
         /\ state' = STATES.PREVIEW
         /\ UNCHANGED <<inputMode, result, error, processingStep, attempts>>

\* A new activation: the interval is set and fetch is called before the
\* handler first awaits.
NewAttempt(kind, url, f, t) ==
    [kind |-> kind, pc |-> "fetch", timer |-> TRUE, status |-> 0,
     req |-> [url |-> url, file |-> f, text |-> t]]

\* An activation that has returned: the interval is cleared and the response
\* and the request body it held are no longer referenced.
Returned(att) ==
    [kind |-> att.kind, pc |-> "done", timer |-> FALSE, status |-> 0,
     req |-> [url |-> att.req.url, file |-> <<>>, text |-> <<>>]]

\* Mutant: setProcessingStep(0) is left out
handleConvert_keepsStep ==
    IF file = <<>>
    THEN UNCHANGED <<state, inputMode, file, preview, result, error, processingStep,
                     previewFailed, liveHandles, nextHandle, attempts>>
    ELSE /\ state' = STATES.PROCESSING
         /\ attempts' = Append(attempts, NewAttempt("image", "/api/convert", file, <<>>))
         /\ UNCHANGED <<inputMode, file, preview, result, error, processingStep,
                        previewFailed, liveHandles, nextHandle>>

handleConvert ==
    IF file = <<>>
    THEN UNCHANGED <<state, inputMode, file, preview, result, error, processingStep,
                     previewFailed, liveHandles, nextHandle, attempts>>
    ELSE /\ state' = STATES.PROCESSING
         /\ processingStep' = 0
         /\ attempts' = Append(attempts, NewAttempt("image", "/api/convert", file, <<>>))
         /\ UNCHANGED <<inputMode, file, preview, result, error, previewFailed,
                        liveHandles, nextHandle>>

handleTextConvert(t) ==
    /\ state' = STATES.PROCESSING
    /\ processingStep' = 0
    /\ attempts' = Append(attempts, NewAttempt("text", "/api/convert-text", <<>>, t))
    /\ UNCHANGED <<inputMode, file, preview, result, error, previewFailed,
                   liveHandles, nextHandle>>

\* Mutant: setError('') is left out
handleReset_keepsError ==
    /\ liveHandles' = IF preview # 0 THEN liveHandles \ {preview} ELSE liveHandles
    /\ file' = <<>>
    /\ preview' = 0
    /\ result' = <<>>
    /\ state' = STATES.IDLE
    /\ UNCHANGED <<inputMode, error, processingStep, previewFailed, nextHandle, attempts>>

\* Mutant: setFile(null) is left out
handleReset_keepsFile ==
    /\ liveHandles' = IF preview # 0 THEN liveHandles \ {preview} ELSE liveHandles
    /\ preview' = 0
    /\ result' = <<>>
    /\ error' = ""
    /\ state' = STATES.IDLE
    /\ UNCHANGED <<inputMode, file, processingStep, previewFailed, nextHandle, attempts>>

handleReset ==
    /\ liveHandles' = IF preview # 0 THEN liveHandles \ {preview} ELSE liveHandles
    /\ file' = <<>>
    /\ preview' = 0
    /\ result' = <<>>
    /\ error' = ""
    /\ state' = STATES.IDLE
    /\ UNCHANGED <<inputMode, processingStep, previewFailed, nextHandle, attempts>>

\* Mutant: the callback gives up once the last message has been shown
stepInterval_givesUp ==
    IF processingStep < Len(PROCESSING_STEPS) - 1
    THEN /\ processingStep' = processingStep + 1
         /\ UNCHANGED <<state, inputMode, file, preview, result, error, previewFailed,
                        liveHandles, nextHandle, attempts>>
    ELSE /\ error' = "Timed out"
         /\ state' = STATES.ERROR
         /\ UNCHANGED <<inputMode, file, preview, result, processingStep,
                        previewFailed, liveHandles, nextHandle, attempts>>

\* The callback of setInterval
stepInterval ==
    /\ processingStep' = IF processingStep < Len(PROCESSING_STEPS) - 1
                         THEN processingStep + 1 ELSE processingStep
    /\ UNCHANGED <<state, inputMode, file, preview, result, error, previewFailed,
                   liveHandles, nextHandle, attempts>>

\* Mutant: the catch block does not clear the interval
catch_keepsInterval(a, m) ==
    /\ attempts' = [attempts EXCEPT ![a] = [Returned(attempts[a]) EXCEPT
                                              !.timer = attempts[a].timer]]
    /\ error' = IF m # "" THEN m ELSE MsgFallback
    /\ state' = STATES.ERROR
    /\ UNCHANGED <<inputMode, file, preview, result, processingStep, previewFailed,
                   liveHandles, nextHandle>>

\* Mutant: the catch block sets the message but not the state
catch_staysProcessing(a, m) ==
    /\ attempts' = [attempts EXCEPT ![a] = Returned(attempts[a])]
    /\ error' = IF m # "" THEN m ELSE MsgFallback
    /\ UNCHANGED <<state, inputMode, file, preview, result, processingStep,
                   previewFailed, liveHandles, nextHandle>>

\* Mutant: err.message is shown without the fallback for an empty message
catch_noFallback(a, m) ==
    /\ attempts' = [attempts EXCEPT ![a] = Returned(attempts[a])]
    /\ error' = m
    /\ state' = STATES.ERROR
    /\ UNCHANGED <<inputMode, file, preview, result, processingStep, previewFailed,
                   liveHandles, nextHandle>>

\* The catch block of activation a, entered with an error of message m
catch(a, m) ==
    /\ attempts' = [attempts EXCEPT ![a] = Returned(attempts[a])]
    /\ error' = IF m # "" THEN m ELSE MsgFallback
    /\ state' = STATES.ERROR
    /\ UNCHANGED <<inputMode, file, preview, result, processingStep, previewFailed,
                   liveHandles, nextHandle>>

\* fetch resolved with a response: the interval is cleared and the handler
\* awaits the body, on the error branch or on the success branch.
onResponse(a, status) ==
    /\ attempts' = [attempts EXCEPT ![a].timer = FALSE, ![a].status = status,
                                    ![a].pc = IF Ok(status) THEN "okjson" ELSE "errjson"]
    /\ UNCHANGED <<state, inputMode, file, preview, result, error, processingStep,
                   previewFailed, liveHandles, nextHandle>>

\* response.json().catch(() => ({})) settled on the error branch
onErrorBody(a, body) ==
    IF body.json = "null"
    THEN catch(a, MsgTypeErrorNull)          \* errData.detail on null throws
    ELSE LET errData == IF body.json = "invalid" THEN NoPayload ELSE body.data
         IN  catch(a, IF Truthy(errData.detail) THEN errData.detail
                      ELSE ServerError(attempts[a].status))

\* Mutant: only the diagram fields are kept as the result, the flag is dropped
onSuccessBody_stripsFlag(a, body) ==
    IF body.json = "invalid" THEN catch(a, MsgSyntaxError)
    ELSE IF body.json = "null" THEN catch(a, MsgTypeErrorNull)
    ELSE IF Truthy(body.data.success)
         THEN /\ result' = <<[body.data EXCEPT !.success = "undefined"]>>
              /\ state' = STATES.DONE
              /\ attempts' = [attempts EXCEPT ![a] = Returned(attempts[a])]
              /\ UNCHANGED <<inputMode, file, preview, error, processingStep,
                             previewFailed, liveHandles, nextHandle>>
         ELSE catch(a, MsgConversionFailed)

\* Mutant: setResult(data) is left out
onSuccessBody_noResult(a, body) ==
    IF body.json = "invalid" THEN catch(a, MsgSyntaxError)
    ELSE IF body.json = "null" THEN catch(a, MsgTypeErrorNull)
    ELSE IF Truthy(body.data.success)
         THEN /\ state' = STATES.DONE
              /\ attempts' = [attempts EXCEPT ![a] = Returned(attempts[a])]
              /\ UNCHANGED <<inputMode, file, preview, result, error, processingStep,
                             previewFailed, liveHandles, nextHandle>>
         ELSE catch(a, MsgConversionFailed)

\* response.json() settled on the success branch
onSuccessBody(a, body) ==
    IF body.json = "invalid" THEN catch(a, MsgSyntaxError)
    ELSE IF body.json = "null" THEN catch(a, MsgTypeErrorNull)
    ELSE IF Truthy(body.data.success)
         THEN /\ result' = <<body.data>>
              /\ state' = STATES.DONE
              /\ attempts' = [attempts EXCEPT ![a] = Returned(attempts[a])]
              /\ UNCHANGED <<inputMode, file, preview, error, processingStep,
                             previewFailed, liveHandles, nextHandle>>
         ELSE catch(a, MsgConversionFailed)

-----------------------------------------------------------------------------
(* TextInputZone *)

\* Mutant: the text is tested without trimming it
IsBlank_noTrim(t) == t = <<>>

\* text.trim() is falsy
IsBlank(t) == Trim(t) = <<>>

\* handleSubmit of TextInputZone, run by a click on the button, which is
\* disabled while the text is blank
handleSubmit ==
    IF ~IsBlank(text)
    THEN handleTextConvert(text)
    ELSE UNCHANGED <<state, inputMode, file, preview, result, error, processingStep,
                     previewFailed, liveHandles, nextHandle, attempts>>

-----------------------------------------------------------------------------
(* Actions: what the user, the timers and the network can do *)

\* A click on a button of the mode switcher
SetInputMode(m) ==
    /\ ModeSwitcherShown
    /\ inputMode' = m
    /\ text' = TextKept(state, m, TextKept(state, inputMode, text))
    /\ ev' = [Ev("mode") EXCEPT !.msg = m]
    /\ UNCHANGED <<state, file, preview, result, error, processingStep, previewFailed,
                   liveHandles, nextHandle, attempts>>

\* Typing in the text area
SetText(t) ==
    /\ TextInputShown
    /\ text' = t
    /\ ev' = [Ev("type") EXCEPT !.text = t]
    /\ UNCHANGED <<state, inputMode, file, preview, result, error, processingStep,
                   previewFailed, liveHandles, nextHandle, attempts>>

\* A click on "Convert Text"
SubmitText ==
    /\ TextInputShown
    /\ ~IsBlank(text) => Len(attempts) < MaxAttempts
    /\ handleSubmit
    /\ text' = TextKept(state', inputMode', text)
    /\ ev' = [Ev("submit") EXCEPT !.text = text]

\* A file picked or dropped in an UploadZone
SelectFile(f) ==
    /\ IdleUploadShown \/ PreviewShown
    /\ validate(f) = "" => nextHandle <= MaxHandles
    /\ handleFileSelected(f)
    /\ text' = TextKept(state', inputMode', text)
    /\ ev' = [Ev("select") EXCEPT !.file = <<f>>]

\* A click on "Convert" of the preview card
Convert ==
    /\ PreviewShown
    /\ Len(attempts) < MaxAttempts
    /\ handleConvert
    /\ text' = TextKept(state', inputMode', text)
    /\ ev' = Ev("convert")

\* The thumbnail fails to load
PreviewError ==
    /\ PreviewShown
    /\ ~previewFailed
    /\ previewFailed' = TRUE
    /\ ev' = Ev("imgerror")
    /\ UNCHANGED <<state, inputMode, file, preview, result, error, processingStep,
                   text, liveHandles, nextHandle, attempts>>

\* A click on the clear button of the preview card, on the reset button of
\* the result panel or on "Try Again"
Reset ==
    /\ PreviewShown \/ DoneShown \/ ErrorShown
    /\ handleReset
    /\ text' = TextKept(state', inputMode', text)
    /\ ev' = Ev("reset")

\* The interval of activation a fires
Tick(a) ==
    /\ attempts[a].timer
    /\ stepInterval
    /\ ev' = [Ev("tick") EXCEPT !.att = a]
    /\ UNCHANGED text

\* The fetch of activation a resolves with a response of the given status
Respond(a, status) ==
    /\ attempts[a].pc = "fetch"
    /\ onResponse(a, status)
    /\ ev' = [Ev("response") EXCEPT !.att = a, !.status = status]
    /\ UNCHANGED text

\* The fetch of activation a rejects: no response
Reject(a, m) ==
    /\ attempts[a].pc = "fetch"
    /\ catch(a, m)
    /\ text' = TextKept(state', inputMode', text)
    /\ ev' = [Ev("reject") EXCEPT !.att = a, !.msg = m]

\* The body of a non-2xx response has been read
ErrorBody(a, body) ==
    /\ attempts[a].pc = "errjson"
    /\ onErrorBody(a, body)
    /\ text' = TextKept(state', inputMode', text)
    /\ ev' = [Ev("errbody") EXCEPT !.att = a, !.status = attempts[a].status,
                                   !.body = <<body>>]

\* The body of a 2xx response has been read
SuccessBody(a, body) ==
    /\ attempts[a].pc = "okjson"
    /\ onSuccessBody(a, body)
    /\ text' = TextKept(state', inputMode', text)
    /\ ev' = [Ev("okbody") EXCEPT !.att = a, !.status = attempts[a].status,
                                  !.body = <<body>>]

Next ==
    \/ \E m \in {"image", "text"} : SetInputMode(m)
    \/ \E t \in Texts : SetText(t)
    \/ SubmitText
    \/ \E f \in Files : SelectFile(f)
    \/ Convert
    \/ PreviewError
    \/ Reset
    \/ \E a \in DOMAIN attempts : Tick(a)
    \/ \E a \in DOMAIN attempts, s \in Statuses : Respond(a, s)
    \/ \E a \in DOMAIN attempts, m \in RejectMessages : Reject(a, m)
    \/ \E a \in DOMAIN attempts, b \in Bodies : ErrorBody(a, b)
    \/ \E a \in DOMAIN attempts, b \in Bodies : SuccessBody(a, b)

Spec == Init /\ [][Next]_vars

-----------------------------------------------------------------------------
(* The network call of every attempt completes: a pending fetch settles and  *)
(* a pending body read settles.                                              *)

NetworkCompletes ==
    \E a \in DOMAIN attempts :
        \/ \E s \in Statuses : Respond(a, s)
        \/ \E m \in RejectMessages : Reject(a, m)
        \/ \E b \in Bodies : ErrorBody(a, b)
        \/ \E b \in Bodies : SuccessBody(a, b)

SpecFair == Spec /\ WF_vars(NetworkCompletes)

-----------------------------------------------------------------------------
(* The controller under "reset from any state" (spec section 5): handleReset *)
(* is also run while the Processing view is shown, where no control of the   *)
(* interface calls it.                                                       *)

ResetDuringProcessing ==
    /\ ProcessingShown
    /\ Len(attempts) = MaxAttempts    \* no later activation overlaps this one
    /\ handleReset
    /\ text' = TextKept(state', inputMode', text)
    /\ ev' = Ev("reset")

NextAnyReset == Next \/ ResetDuringProcessing

SpecAnyReset == Init /\ [][NextAnyReset]_vars

-----------------------------------------------------------------------------
(* Vocabulary of the claims *)

\* Activation a takes a step: its fetch or its body read settles
Settles(a) == a \in DOMAIN attempts /\ attempts'[a] # attempts[a]

\* The activation whose outcome the Processing view is waiting for
Current == attempts[Len(attempts)]
ProcessingFrom(kind) ==
    state = STATES.PROCESSING /\ attempts # <<>> /\ Current.kind = kind

\* The check the claims state for a candidate file
Whitelist == {"image/jpeg", "image/png", "image/webp", "image/heic", "image/bmp"}
ShouldReject(f) == f.type \notin Whitelist \/ f.size > 20 * 1024 * 1024

\* A text of blanks only (the empty text included)
OnlyWhitespace(t) == \A i \in 1..Len(t) : t[i] = " "

-----------------------------------------------------------------------------
(* Claims *)

\* C1: a response (success, service error, transport failure) that arrives
\* after reset took the controller out of Processing changes none of state,
\* result, error, selected image and preview handle.
C1_LateResponseIgnored ==
    [][\A a \in DOMAIN attempts :
          (Settles(a) /\ state # STATES.PROCESSING)
              => UNCHANGED <<state, result, error, file, preview>>]_vars

\* C2: whatever the history, after reset the state is Idle, there is no
\* result, no error, no selected image and no live preview handle.
C2_ResetClearsEverything ==
    ev.op = "reset" =>
        /\ state = STATES.IDLE
        /\ result = <<>>
        /\ error = ""
        /\ file = <<>>
        /\ liveHandles = {}

\* C3: at most one preview handle is live in every reachable state.
C3_AtMostOneLiveHandle == Cardinality(liveHandles) <= 1

\* C4: a result is set iff the state is Done, a non-empty error message is
\* set iff the state is Failed, and never both.
C4_ResultAndErrorFollowState ==
    /\ result # <<>> <=> state = STATES.DONE
    /\ error # "" <=> state = STATES.ERROR
    /\ ~(result # <<>> /\ error # "")

C4_Witness ==
    /\ state = STATES.DONE /\ result # <<>> /\ error = ""
    /\ Len(attempts) = 2 /\ ev.op = "okbody"

C6_TimerWithinAttempt ==
    /\ \A a \in DOMAIN attempts :
          /\ attempts[a].pc # "fetch" => ~attempts[a].timer
          /\ attempts[a].timer => state = STATES.PROCESSING
    /\ ev.op = "tick" => state = STATES.PROCESSING

C6_Witness ==
    /\ ev.op = "reject" /\ state = STATES.ERROR /\ processingStep >= 1
    /\ Len(attempts) = 1 /\ ~attempts[1].timer

\* C7: the cursor stays within 0..4, never decreases during an attempt, stalls
\* at 4 on further ticks, and is 0 when an attempt starts.
C7_CursorMonotoneCappedReset ==
    /\ [](processingStep \in 0..4)
    /\ [][/\ (state = STATES.PROCESSING /\ state' = STATES.PROCESSING)
                => processingStep' >= processingStep
          /\ (ev'.op = "tick" /\ processingStep = 4) => processingStep' = 4
          /\ Len(attempts') > Len(attempts) => processingStep' = 0]_vars

C7_Witness ==
    /\ Len(attempts) = 2 /\ state = STATES.PROCESSING
    /\ processingStep = 4 /\ ev.op = "tick"

\* C8: a candidate file is rejected iff its type is outside the whitelist or
\* its size is above 20 * 1024 * 1024 bytes; otherwise it is accepted.
C8_RejectsIffBadTypeOrTooLarge ==
    ev.op = "select" =>
        LET f == ev.file[1]
        IN  /\ (state = STATES.ERROR /\ error # "") <=> ShouldReject(f)
            /\ (state = STATES.PREVIEW /\ file = <<f>>) <=> ~ShouldReject(f)

C8_Witness ==
    /\ ev.op = "select" /\ state = STATES.PREVIEW
    /\ ev.file[1] = [type |-> "image/png", size |-> 20 * 1024 * 1024]

\* C9: selecting a file that fails validation goes to Failed with a non-empty
\* message, issues no request, allocates no preview handle, starts no timer.
C9_InvalidFileFailsLocally ==
    [][(ev'.op = "select" /\ ShouldReject(ev'.file[1])) =>
          /\ state' = STATES.ERROR
          /\ error' # ""
          /\ attempts' = attempts
          /\ liveHandles' = liveHandles
          /\ nextHandle' = nextHandle
          /\ preview' = preview]_vars

C9_Witness ==
    /\ ev.op = "select" /\ ev.file[1].type = "application/pdf"
    /\ state = STATES.ERROR /\ error # "" /\ attempts = <<>> /\ liveHandles = {}

\* C10: submitting a text of blanks only changes nothing (the state stays
\* Idle, no request, no timer), and every text-conversion request carries a
\* text with a non-blank character.
C10_BlankTextNeverSubmitted ==
    /\ [][(ev'.op = "submit" /\ OnlyWhitespace(ev'.text)) =>
             /\ state = STATES.IDLE
             /\ UNCHANGED <<state, inputMode, file, preview, result, error,
                            processingStep, previewFailed, text, liveHandles,
                            nextHandle, attempts>>]_vars
    /\ [](\A a \in DOMAIN attempts :
             (attempts[a].kind = "text" /\ attempts[a].pc # "done")
                 => ~OnlyWhitespace(attempts[a].req.text))

C10_Witness ==
    /\ ev.op = "submit" /\ ev.text = <<" ", " ">>
    /\ state = STATES.IDLE /\ attempts = <<>>

\* C11: Done and Failed are left only by a reset of the user, which leads to
\* Idle, and a conversion request is issued only by the user's confirm
\* (Convert in Preview, Convert Text in Idle), never from Done or Failed.
C11_TerminalLeftOnlyByReset ==
    [][/\ (state \in {STATES.DONE, STATES.ERROR} /\ state' # state)
             => (ev'.op = "reset" /\ state' = STATES.IDLE)
       /\ Len(attempts') > Len(attempts)
             => /\ ev'.op \in {"convert", "submit"}
                /\ state \in {STATES.IDLE, STATES.PREVIEW}
                /\ Len(attempts') = Len(attempts) + 1]_vars

C11_Witness ==
    /\ ev.op = "reset" /\ state = STATES.IDLE
    /\ attempts # <<>> /\ Current.pc = "done" /\ Current.kind = "image"

\* C12: after a non-success HTTP status the state is Failed, no result is
\* set, and the message is the body's detail when the body parses as JSON and
\* carries one, and otherwise the generic message embedding the status code.
C12_ServiceErrorMessage ==
    ev.op = "errbody" =>
        LET body == ev.body[1]
        IN  /\ state = STATES.ERROR
            /\ result = <<>>
            /\ error = IF body.json = "object" /\ body.data.detail \notin {"undefined", ""}
                       THEN body.data.detail
                       ELSE "Server error (" \o ToString(ev.status) \o ")"

C14_TransportFailureMessage ==
    ev.op = "reject" =>
        /\ state = STATES.ERROR
        /\ result = <<>>
        /\ error = IF ev.msg = "" THEN "Something went wrong. Please try again."
                   ELSE ev.msg

C14_Witness ==
    /\ ev.op = "reject" /\ ev.msg = "" /\ state = STATES.ERROR
    /\ error = "Something went wrong. Please try again."

\* C15: if the network call of an attempt completes, Processing is followed
\* by Done or Failed with every timer stopped, however many ticks occur
\* meanwhile; and Processing is left only by that completion.
C15_ProcessingResolves ==
    /\ (state = STATES.PROCESSING)
          ~> (/\ state \in {STATES.DONE, STATES.ERROR}
              /\ \A a \in DOMAIN attempts : ~attempts[a].timer)
    /\ [][(state = STATES.PROCESSING /\ state' # STATES.PROCESSING) =>
             /\ state' \in {STATES.DONE, STATES.ERROR}
             /\ ev'.op \in {"reject", "errbody", "okbody"}
             /\ \A a \in DOMAIN attempts' : ~attempts'[a].timer]_vars

C15_Witness ==
    /\ state = STATES.DONE /\ ev.op = "okbody" /\ processingStep = 2
    /\ Len(attempts) = 1 /\ ~attempts[1].timer

\* C16: the input mode changes only in Idle; every transition taken in
\* Preview, Processing, Done or Failed leaves it unchanged, so a run keeps
\* the mode it started with (Preview is an image run, and an attempt is of
\* the kind of the mode).
C16_ModeChangesOnlyInIdle ==
    /\ [][inputMode' # inputMode
             => (state = STATES.IDLE /\ state' = STATES.IDLE)]_vars
    /\ [](/\ state = STATES.PREVIEW => inputMode = "image"
          /\ (state \in {STATES.PROCESSING, STATES.DONE} /\ attempts # <<>>)
                => Current.kind = inputMode)

C16_Witness ==
    /\ state = STATES.DONE /\ inputMode = "text" /\ Current.kind = "text"
    /\ Len(attempts) = 2 /\ attempts[1].kind = "image"

\* C17: a preview render failure only sets the fallback indicator: state
\* (Preview), selected image, preview handle, result and error are unchanged
\* and the preview card with its Convert and clear buttons stays rendered;
\* selecting a new valid image clears the indicator.
C17_PreviewFailureIsCosmetic ==
    [][/\ ev'.op = "imgerror" =>
             /\ state = STATES.PREVIEW /\ previewFailed'
             /\ UNCHANGED <<state, inputMode, file, preview, result, error,
                            processingStep, text, liveHandles, nextHandle, attempts>>
             /\ PreviewShown'
       /\ (ev'.op = "select" /\ state' = STATES.PREVIEW) => ~previewFailed']_vars

C17_Witness ==
    /\ ev.op = "imgerror" /\ previewFailed /\ PreviewShown
    /\ file # <<>> /\ preview # 0 /\ result = <<>> /\ error = ""

\* What a completion of the network call sets, as a function of that
\* completion alone
Outcome(e) ==
    LET failed(m) == [state |-> STATES.ERROR, result |-> <<>>, error |-> m]
    IN  IF e.op = "reject"
        THEN failed(IF e.msg = "" THEN MsgFallback ELSE e.msg)
        ELSE IF e.body[1].json = "null" THEN failed(MsgTypeErrorNull)
        ELSE IF e.op = "errbody"
        THEN failed(IF e.body[1].json = "object" /\ Truthy(e.body[1].data.detail)
                    THEN e.body[1].data.detail ELSE ServerError(e.status))
        ELSE IF e.body[1].json = "invalid" THEN failed(MsgSyntaxError)
        ELSE IF Truthy(e.body[1].data.success)
        THEN [state |-> STATES.DONE, result |-> <<e.body[1].data>>, error |-> ""]
        ELSE failed(MsgConversionFailed)

\* C18: the terminal state and the result or message retained are a function
\* of the network outcome only, whatever the number and placement of the
\* ticks; a tick changes nothing but the cursor.
C18_OutcomeIndependentOfTicks ==
    /\ [](ev.op \in {"reject", "errbody", "okbody"}
             => [state |-> state, result |-> result, error |-> error] = Outcome(ev))
    /\ [][ev'.op = "tick" =>
             UNCHANGED <<state, inputMode, file, preview, result, error,
                         previewFailed, text, liveHandles, nextHandle, attempts>>]_vars

C18_Witness ==
    /\ ev.op = "okbody" /\ state = STATES.DONE /\ processingStep = 3
    /\ Len(attempts) = 1

\* C19: at most one conversion request is outstanding and at most one timer
\* is live; an attempt starts only when every earlier one has resolved and
\* the user has reset (no result and no error left).
C19_OneAttemptAtATime ==
    /\ [](/\ Cardinality({a \in DOMAIN attempts : attempts[a].pc # "done"}) <= 1
          /\ Cardinality({a \in DOMAIN attempts : attempts[a].timer}) <= 1)
    /\ [][Len(attempts') > Len(attempts) =>
             /\ \A a \in DOMAIN attempts : attempts[a].pc = "done"
             /\ result = <<>> /\ error = ""]_vars

C19_Witness ==
    /\ Len(attempts) = 2 /\ attempts[1].pc = "done"
    /\ attempts[2].pc = "fetch" /\ attempts[2].timer

\* C20: exactly one of the Idle, Preview, Processing, Done and Failed views
\* is rendered in every reachable state: in Preview the mode is Image and an
\* image is selected, and in Done a result is present.
C20_ExactlyOneViewRendered ==
    /\ state = STATES.PREVIEW => (inputMode = "image" /\ file # <<>>)
    /\ state = STATES.DONE => result # <<>>
    /\ Cardinality({v \in {"idle", "preview", "processing", "done", "error"} :
          \/ v = "idle" /\ (IdleUploadShown \/ TextInputShown)
          \/ v = "preview" /\ PreviewShown
          \/ v = "processing" /\ ProcessingShown
          \/ v = "done" /\ DoneShown
          \/ v = "error" /\ ErrorShown}) = 1

C20_Witness == state = STATES.DONE /\ DoneShown /\ inputMode = "text"

====
